---- MODULE Spec2Model ----
(***************************************************************************)
(* Model of the catalyst-stats action: trigger a remote background job,    *)
(* poll its status endpoint, fetch the proposals, transform and write.     *)
(*                                                                         *)
(* Two copies of the two-endpoint program are modelled, told apart by the  *)
(* variable `variant`:                                                     *)
(*   "ts"   - the TypeScript source (trigger, poll, transformData, write)  *)
(*   "dist" - dist/index.js (trigger, poll, write of the raw poll result)  *)
(* Both share makeRequest and pollUntilComplete, line for line.            *)
(*                                                                         *)
(* An action is one resumption of the async code: from the point where an  *)
(* awaited promise settles up to the next await (or to process exit).      *)
(* Remote responses and filesystem outcomes are the inputs, drawn with \E. *)
(***************************************************************************)
EXTENDS Integers, Sequences, FiniteSets, TLC

(***************************************************************************)
(* Bounds of the model (not program constants).                            *)
(***************************************************************************)
\* longest proposals array the results endpoint returns
MaxProposals == 1
\* number of distinct wall-clock readings of new Date()
MaxClock == 1
\* the longest proposals array given to transformData on its own
MaxRecords == 2

(***************************************************************************)
(* Program constants.                                                      *)
(***************************************************************************)
\* pollUntilComplete(ids, maxRetries = 30, interval = 10000)
maxRetries == 30
interval == 10000

\* the messages of the errors the program raises or prints
MsgMissingIds == "INPUT_PROJECT_IDS must be set"
MsgTimedOutAfterAll == "Polling timed out after all attempts."
MsgTimedOut == "Polling timed out."
MsgHttp == "HTTP <status>: <statusText>"
MsgFetch == "fetch failed"
MsgTypeError == "TypeError"
LogTrigger == "Failed to trigger background function:"
LogFatal == "Fatal error:"
LogWrite == "Failed to write results to file:"
\* the one-endpoint copies
MsgMissingInputs == "Missing required inputs."
MsgTriggerFailed == "Trigger failed: <statusText>"
MsgPollingFailed == "Polling failed: <statusText>"
MsgSyntaxError == "SyntaxError"
LogError == "Error:"

(***************************************************************************)
(* JavaScript values.  An optional number is a sequence of length <= 1.    *)
(* A JSON value is a record of its kind and of the properties the program  *)
(* reads from it; a property the value lacks is "absent".                  *)
(***************************************************************************)
Variants == {"ts", "dist"}

\* process.env['INPUT_PROJECT_IDS']: unset, empty, or a comma-separated list
IdInputs == {"undefined", "", "101,102"}

\* OUTPUT_FILE = process.env['INPUT_OUTPUT_FILE'] || path.resolve(cwd,
\* 'data/catalyst-stats/stats.json'): the given path, or the default one
DefaultOutputFile == "data/catalyst-stats/stats.json"
OutputFiles == {DefaultOutputFile, "out/stats.json"}

\* the one-endpoint copies: src/index.js and src/src/index.ts; they have no
\* default output path
OneVariants == {"js", "ts1"}
OneOutputFiles == {"undefined", "out/stats.json"}

\* a raw project record of the proposals array (null, or an object)
RawRecord(isNull, id, mc, cm) ==
    [isNull |-> isNull, id |-> id, milestones_completed |-> mc,
     completed_milestones |-> cm]

NullRecord == RawRecord(TRUE, <<>>, <<>>, <<>>)

\* the items the results endpoint returns in the end-to-end model
ResultItems ==
    {NullRecord, RawRecord(FALSE, <<1>>, <<>>, <<>>), RawRecord(FALSE, <<2>>, <<3>>, <<>>)}

\* the raw records given to transformData on its own: null, or an object with
\* an id and each milestone field absent, 0 or positive
RawRecords ==
    {NullRecord} \cup
    {RawRecord(FALSE, <<id>>, mc, cm) :
        id \in 1..2, mc \in {<<>>, <<0>>, <<3>>}, cm \in {<<>>, <<0>>, <<5>>}}

RECURSIVE SeqsUpTo(_, _)
SeqsUpTo(S, n) ==
    IF n = 0 THEN {<<>>}
    ELSE LET shorter == SeqsUpTo(S, n - 1)
         IN  shorter \cup {Append(s, x) : s \in {t \in shorter : Len(t) = n - 1}, x \in S}

\* the value of a `proposals` property
Proposals(kind, items) == [kind |-> kind, items |-> items]
NoProposals == Proposals("absent", <<>>)
ProposalsValues ==
    {NoProposals, Proposals("null", <<>>), Proposals("scalar", <<>>)}
        \cup {Proposals("array", s) : s \in SeqsUpTo(ResultItems, MaxProposals)}

JsonValue(kind, success, message, hasData, status, proposals) ==
    [kind |-> kind, success |-> success, message |-> message,
     hasData |-> hasData, status |-> status, proposals |-> proposals]

\* no value: a variable that is out of scope or not yet assigned
NoValue == JsonValue("none", "absent", "absent", "absent", "absent", NoProposals)
JsonNull == JsonValue("null", "absent", "absent", "absent", "absent", NoProposals)
\* a number, string or boolean: every property read gives undefined
JsonScalar == JsonValue("scalar", "absent", "absent", "absent", "absent", NoProposals)
JsonObject(success, hasData, status, proposals) ==
    JsonValue("object", success, "absent", hasData, status, proposals)

(***************************************************************************)
(* HTTP: what fetch() gives makeRequest.  net = "error" is a rejected      *)
(* fetch (or a body that cannot be read); otherwise ok is response.ok and  *)
(* body is the response text: empty, blank (white space only), text that   *)
(* is not JSON, or the text of the JSON value `json`.                      *)
(***************************************************************************)
Body(form, json) == [form |-> form, json |-> json]
Response(net, ok, body) == [net |-> net, ok |-> ok, body |-> body]

NetworkError == Response("error", FALSE, Body("empty", NoValue))
Non2xx == Response("response", FALSE, Body("text", NoValue))
Ok2xx(body) == Response("response", TRUE, body)

PlainBodies == {Body("empty", NoValue), Body("blank", NoValue), Body("text", NoValue)}

TriggerBodies ==
    PlainBodies \cup {Body("json", JsonNull), Body("json", JsonScalar)}
        \cup {Body("json", JsonObject(s, "absent", "absent", NoProposals)) :
                s \in {"absent", "true", "false"}}

\* hasData: absent, false, true, or a truthy value that is not a boolean (1)
HasDataValues == {"absent", "false", "true", "1"}
StatusValues == {"absent", "pending", "partial", "completed"}

StatusBodies ==
    PlainBodies \cup {Body("json", JsonNull), Body("json", JsonScalar)}
        \cup {Body("json", JsonObject("absent", h, s, NoProposals)) :
                h \in HasDataValues, s \in StatusValues}

ProposalsBodies ==
    PlainBodies \cup {Body("json", JsonNull), Body("json", JsonScalar)}
        \cup {Body("json", JsonObject("absent", "absent", "absent", p)) :
                p \in ProposalsValues}

TriggerResponses == {NetworkError, Non2xx} \cup {Ok2xx(b) : b \in TriggerBodies}
StatusResponses == {NetworkError, Non2xx} \cup {Ok2xx(b) : b \in StatusBodies}
ProposalsResponses == {NetworkError, Non2xx} \cup {Ok2xx(b) : b \in ProposalsBodies}

(***************************************************************************)
(* The one-endpoint copies (src/index.js, src/src/index.ts): the payload   *)
(* of the poll endpoint is read for `status` and `results`, with           *)
(* response.json().                                                        *)
(***************************************************************************)
OneData(kind, status, results) ==
    [kind |-> kind, status |-> status, results |-> results]
OneNoData == OneData("none", "absent", NoProposals)
OneDatas ==
    {OneData("null", "absent", NoProposals), OneData("scalar", "absent", NoProposals)}
        \cup {OneData("object", s, r) : s \in StatusValues, r \in ProposalsValues}

OneResponse(net, ok, form, data) ==
    [net |-> net, ok |-> ok, form |-> form, data |-> data]
\* no response: the variable is out of scope
NoResponse == OneResponse("none", FALSE, "empty", OneNoData)
OneResponses ==
    {OneResponse("error", FALSE, "empty", OneNoData),
     OneResponse("response", FALSE, "text", OneNoData)}
        \cup {OneResponse("response", TRUE, f, OneNoData) : f \in {"empty", "text"}}
        \cup {OneResponse("response", TRUE, "json", d) : d \in OneDatas}

(***************************************************************************)
(* makeRequest                                                             *)
(***************************************************************************)
Thrown(msg) == [threw |-> TRUE, error |-> msg, value |-> NoValue]
Returned(v) == [threw |-> FALSE, error |-> "", value |-> v]

\* text.trim() === ''
TrimIsEmpty(body) == body.form \in {"empty", "blank"}

\* JSON.parse(text): the value, or a SyntaxError
JSONParse(body) ==
    IF body.form = "json" THEN Returned(body.json) ELSE Thrown("SyntaxError")

makeRequest(resp) ==
    IF resp.net = "error" THEN Thrown(MsgFetch)
    ELSE IF ~resp.ok THEN Thrown(MsgHttp)
    ELSE IF TrimIsEmpty(resp.body)
         THEN Returned(JsonValue("object", "true", "Empty response",
                                 "absent", "absent", NoProposals))
    ELSE IF JSONParse(resp.body).threw
         THEN Returned(JsonValue("object", "true", "Non-JSON response",
                                 "absent", "absent", NoProposals))
    ELSE JSONParse(resp.body)

\* reading a property of v throws a TypeError when v is null
ReadThrows(v) == v.kind = "null"

\* JavaScript truthiness of a hasData value
Truthy(h) == h \in {"true", "1"}

\* mutant of IsComplete: the hasData test is dropped
IsCompleteIgnoresHasData(statusData) ==
    statusData.status \in {"completed", "partial"}

\* mutant of IsComplete: 'partial' is not accepted
IsCompleteCompletedOnly(statusData) ==
    Truthy(statusData.hasData) /\ statusData.status = "completed"

\* statusData.hasData && (status === 'completed' || status === 'partial')
IsComplete(statusData) ==
    Truthy(statusData.hasData) /\ statusData.status \in {"completed", "partial"}

(***************************************************************************)
(* transformData                                                           *)
(***************************************************************************)
\* a || b || 0 on optional numbers
MilestonesCompleted(project) ==
    LET a == project.milestones_completed
        b == project.completed_milestones
    IN  IF a # <<>> /\ a[1] # 0 THEN a[1]
        ELSE IF b # <<>> /\ b[1] # 0 THEN b[1]
        ELSE 0

TransformProject(project) ==
    [projectDetails |-> [id |-> project.id],
     milestonesCompleted |-> MilestonesCompleted(project)]

\* mutant of TransformThrows: rawData.map never throws
TransformNeverThrows(rawData) == FALSE

\* rawData.map(...) throws a TypeError on a non-array and on a null item
TransformThrows(rawData) ==
    \/ rawData.kind # "array"
    \/ \E i \in 1..Len(rawData.items) : rawData.items[i].isNull

Document(kind, timestamp, projects, raw) ==
    [kind |-> kind, timestamp |-> timestamp, projects |-> projects, raw |-> raw]
NoDocument == Document("none", <<>>, <<>>, NoProposals)

RECURSIVE Reverse(_)
Reverse(s) == IF s = <<>> THEN <<>> ELSE Append(Reverse(Tail(s)), Head(s))

\* mutant of transformData: the projects come out in reverse order
transformDataReversed(rawData, now) ==
    Document("document", <<now>>,
             Reverse([i \in 1..Len(rawData.items) |-> TransformProject(rawData.items[i])]),
             NoProposals)

transformData(rawData, now) ==
    Document("document", <<now>>,
             [i \in 1..Len(rawData.items) |-> TransformProject(rawData.items[i])],
             NoProposals)

\* JSON.stringify(value, null, 2) is undefined, not a string, for undefined
StringifyIsString(doc) ==
    ~(doc.kind = "raw" /\ doc.raw.kind = "absent")

(***************************************************************************)
(* State                                                                   *)
(***************************************************************************)
VARIABLES
    variant,            \* which copy of the program runs
    PROJECT_IDS,        \* process.env['INPUT_PROJECT_IDS']
    OUTPUT_FILE,        \* the output path: process.env['INPUT_OUTPUT_FILE'],
                        \* or the default path where the program has one
    res,                \* one-endpoint pollUntilComplete: the fetch response
                        \* of this attempt
    pc,                 \* where the run is
    functionResponse,   \* main: the trigger's makeRequest result
    attempt,            \* pollUntilComplete: the loop counter
    statusData,         \* pollUntilComplete: the status makeRequest result
                        \* of this attempt (kept when the attempt throws)
    proposalsData,      \* pollUntilComplete: the proposals makeRequest result
    rawResults,         \* main: what pollUntilComplete returned
    transformedResults, \* main: what transformData returned
    dirCreated,         \* the output directory was created by this run
    file,               \* what this run left at the output path
    exitCode,           \* "none" while running, then "0" or "1"
    errorLog,           \* the prefix of the error line printed at a fatal error
    errorMessage,       \* the message of the error printed at a fatal error
    \* history of the run, read by no action
    triggerRequests,    \* number of trigger requests issued
    triggerStatus,      \* "none", or how the trigger request ended
    statusRequests,     \* number of status requests issued
    resultsRequests,    \* number of proposals requests issued
    sleeps,             \* number of sleeps completed
    elapsed,            \* milliseconds slept so far
    pollResult,         \* "none", or how pollUntilComplete ended
    transforms,         \* number of calls of transformData
    firstCompleted,     \* the first status call returned hasData true, completed
    allNon2xx,          \* every status call so far got a non-2xx response
    allNoData,          \* every status call so far returned hasData false
    priorNoData         \* every status call before the latest returned hasData false

vars == <<variant, PROJECT_IDS, OUTPUT_FILE, res, pc, functionResponse, attempt, statusData,
          proposalsData, rawResults, transformedResults, dirCreated, file,
          exitCode, errorLog, errorMessage, triggerRequests, triggerStatus,
          statusRequests, resultsRequests, sleeps, elapsed, pollResult, transforms,
          firstCompleted, allNon2xx, allNoData, priorNoData>>

progVars == <<functionResponse, attempt, statusData, proposalsData, rawResults,
              transformedResults, dirCreated, file>>
histVars == <<triggerRequests, triggerStatus, statusRequests, resultsRequests,
              sleeps, elapsed, pollResult, transforms, firstCompleted, allNon2xx,
              allNoData, priorNoData>>
histVarsButPollResult ==
    <<triggerRequests, triggerStatus, statusRequests, resultsRequests, sleeps,
      elapsed, transforms, firstCompleted, allNon2xx, allNoData, priorNoData>>
exitVars == <<exitCode, errorLog, errorMessage>>

NoFile == [state |-> "absent", doc |-> NoDocument]

Init ==
    /\ variant \in Variants
    /\ PROJECT_IDS \in IdInputs
    /\ OUTPUT_FILE \in OutputFiles
    /\ pc = "load"
    /\ res = NoResponse
    /\ functionResponse = NoValue
    /\ attempt = 0
    /\ statusData = NoValue
    /\ proposalsData = NoValue
    /\ rawResults = NoProposals
    /\ transformedResults = NoDocument
    /\ dirCreated = FALSE
    /\ file = NoFile
    /\ exitCode = "none"
    /\ errorLog = ""
    /\ errorMessage = ""
    /\ triggerRequests = 0
    /\ triggerStatus = "none"
    /\ statusRequests = 0
    /\ resultsRequests = 0
    /\ sleeps = 0
    /\ elapsed = 0
    /\ pollResult = "none"
    /\ transforms = 0
    /\ firstCompleted = FALSE
    /\ allNon2xx = TRUE
    /\ allNoData = TRUE
    /\ priorNoData = TRUE

(***************************************************************************)
(* Process exit                                                            *)
(***************************************************************************)
\* mutant of Exit: the process exits with code 0
ExitCodeZero(log, msg) ==
    /\ pc' = "exit"
    /\ exitCode' = "0"
    /\ errorLog' = log
    /\ errorMessage' = msg

\* console.error(log, msg); process.exit(1)
Exit(log, msg) ==
    /\ pc' = "exit"
    /\ exitCode' = "1"
    /\ errorLog' = log
    /\ errorMessage' = msg

\* main().catch(err => { console.error('Fatal error:', err.message); process.exit(1) })
Fatal(msg) == Exit(LogFatal, msg)

\* the run goes on: nothing is printed as an error, the process does not exit
Continue(next) ==
    /\ pc' = next
    /\ UNCHANGED exitVars

(***************************************************************************)
(* Module load: the validation of the inputs                               *)
(***************************************************************************)
\* !PROJECT_IDS
Falsy(ids) == ids \in {"undefined", ""}

Validate ==
    /\ pc = "load"
    /\ IF Falsy(PROJECT_IDS)
       THEN Exit(MsgMissingIds, "")
       ELSE Continue("trigger")
    /\ UNCHANGED <<variant, PROJECT_IDS, OUTPUT_FILE, res, progVars, histVars>>

(***************************************************************************)
(* main, step 1: the trigger                                               *)
(***************************************************************************)
ResponseClass(resp) ==
    IF resp.net = "error" THEN "network_error"
    ELSE IF resp.ok THEN "2xx" ELSE "non2xx"

\* mutant of TriggerRequest: the catch block does not exit
TriggerRequestIgnoresFailure ==
    /\ pc = "trigger"
    /\ \E resp \in TriggerResponses :
         LET r == makeRequest(resp)
         IN  /\ triggerRequests' = triggerRequests + 1
             /\ triggerStatus' = ResponseClass(resp)
             /\ Continue("triggered")
             /\ functionResponse' = IF r.threw THEN JsonScalar ELSE r.value
    /\ UNCHANGED <<variant, PROJECT_IDS, OUTPUT_FILE, res, attempt, statusData, proposalsData,
                   rawResults, transformedResults, dirCreated, file,
                   statusRequests, resultsRequests, sleeps, elapsed, pollResult,
                   transforms, firstCompleted, allNon2xx, allNoData, priorNoData>>

\* await makeRequest(triggerUrlWithParams, { method: 'POST' }), and the catch
TriggerRequest ==
    /\ pc = "trigger"
    /\ \E resp \in TriggerResponses :
         LET r == makeRequest(resp)
         IN  /\ triggerRequests' = triggerRequests + 1
             /\ triggerStatus' = ResponseClass(resp)
             /\ IF r.threw
                THEN /\ Exit(LogTrigger, r.error)
                     /\ UNCHANGED functionResponse
                ELSE /\ Continue("triggered")
                     /\ functionResponse' = r.value
    /\ UNCHANGED <<variant, PROJECT_IDS, OUTPUT_FILE, res, attempt, statusData, proposalsData,
                   rawResults, transformedResults, dirCreated, file,
                   statusRequests, resultsRequests, sleeps, elapsed, pollResult,
                   transforms, firstCompleted, allNon2xx, allNoData, priorNoData>>

\* the rest of the try block: functionResponse.success is read; then main
\* calls pollUntilComplete, which starts its loop with attempt = 0
TriggerCheck ==
    /\ pc = "triggered"
    /\ IF ReadThrows(functionResponse)
       THEN /\ Exit(LogTrigger, MsgTypeError)
            /\ UNCHANGED attempt
       ELSE /\ Continue("status")
            /\ attempt' = 0
    /\ functionResponse' = NoValue
    /\ UNCHANGED <<variant, PROJECT_IDS, OUTPUT_FILE, res, statusData, proposalsData, rawResults,
                   transformedResults, dirCreated, file, histVars>>

(***************************************************************************)
(* pollUntilComplete                                                       *)
(***************************************************************************)
\* mutant of Catch: the first failed attempt aborts the poll
CatchAlwaysThrows ==
    /\ Fatal(MsgTimedOutAfterAll)
    /\ pollResult' = "threw"

\* mutant of Catch: the test for the last attempt is off by one
CatchOffByOne ==
    IF attempt = maxRetries
    THEN /\ Fatal(MsgTimedOutAfterAll)
         /\ pollResult' = "threw"
    ELSE /\ Continue("sleep_retry")
         /\ UNCHANGED pollResult

\* the catch block of an attempt: the last allowed attempt throws the
\* timeout (which main().catch prints), any other sleeps and tries again
Catch ==
    IF attempt = maxRetries - 1
    THEN /\ Fatal(MsgTimedOutAfterAll)
         /\ pollResult' = "threw"
    ELSE /\ Continue("sleep_retry")
         /\ UNCHANGED pollResult

\* mutant of NextAttempt: the loop test is attempt <= maxRetries
NextAttemptOffByOne ==
    /\ attempt' = attempt + 1
    /\ IF attempt + 1 <= maxRetries
       THEN /\ Continue("status")
            /\ UNCHANGED pollResult
       ELSE /\ Fatal(MsgTimedOut)
            /\ pollResult' = "threw"

\* mutant of NextAttempt: the error after the loop has the message of the
\* error of the catch block
NextAttemptSameMessage ==
    /\ attempt' = attempt + 1
    /\ IF attempt + 1 < maxRetries
       THEN /\ Continue("status")
            /\ UNCHANGED pollResult
       ELSE /\ Fatal(MsgTimedOutAfterAll)
            /\ pollResult' = "threw"

\* attempt++ and the loop test; `throw new Error('Polling timed out.')`
\* after the loop
NextAttempt ==
    /\ attempt' = attempt + 1
    /\ IF attempt + 1 < maxRetries
       THEN /\ Continue("status")
            /\ UNCHANGED pollResult
       ELSE /\ Fatal(MsgTimedOut)
            /\ pollResult' = "threw"

\* hasData false in a status response
NoData(r) == ~r.threw /\ r.value.kind = "object" /\ r.value.hasData = "false"

\* hasData true with status 'completed' in a status response
CompletedWithData(r) ==
    ~r.threw /\ r.value.hasData = "true" /\ r.value.status = "completed"

\* const statusData = await makeRequest(statusUrlWithParams)
StatusRequest ==
    /\ pc = "status"
    /\ \E resp \in StatusResponses :
         LET r == makeRequest(resp)
         IN  /\ statusRequests' = statusRequests + 1
             /\ firstCompleted' =
                    IF statusRequests = 0 THEN CompletedWithData(r) ELSE firstCompleted
             /\ allNon2xx' = (allNon2xx /\ ResponseClass(resp) = "non2xx")
             /\ allNoData' = (allNoData /\ NoData(r))
             /\ priorNoData' = allNoData
             /\ IF r.threw
                THEN /\ Catch
                     /\ UNCHANGED statusData
                ELSE /\ Continue("check_status")
                     /\ statusData' = r.value
                     /\ UNCHANGED pollResult
    /\ UNCHANGED <<variant, PROJECT_IDS, OUTPUT_FILE, res, functionResponse, attempt, proposalsData,
                   rawResults, transformedResults, dirCreated, file,
                   triggerRequests, triggerStatus, resultsRequests, sleeps, elapsed,
                   transforms>>

\* if (statusData.hasData && (...)) { fetch the proposals } else { wait }
CheckStatus ==
    /\ pc = "check_status"
    /\ IF ReadThrows(statusData)
       THEN Catch
       ELSE IF IsComplete(statusData)
       THEN /\ Continue("results")
            /\ UNCHANGED pollResult
       ELSE /\ Continue("sleep_waiting")
            /\ UNCHANGED pollResult
    /\ UNCHANGED <<variant, PROJECT_IDS, OUTPUT_FILE, res, functionResponse, attempt, statusData,
                   proposalsData, rawResults, transformedResults, dirCreated,
                   file, triggerRequests, triggerStatus, statusRequests,
                   resultsRequests, sleeps, elapsed, transforms, firstCompleted,
                   allNon2xx, allNoData, priorNoData>>

\* mutant of ResultsRequest: a failed proposals request is not caught by
\* the attempt's catch block
ResultsRequestOutsideTry ==
    /\ pc = "results"
    /\ \E resp \in ProposalsResponses :
         LET r == makeRequest(resp)
         IN  /\ resultsRequests' = resultsRequests + 1
             /\ IF r.threw
                THEN /\ Fatal(r.error)
                     /\ pollResult' = "threw"
                     /\ UNCHANGED proposalsData
                ELSE /\ Continue("got_proposals")
                     /\ proposalsData' = r.value
                     /\ UNCHANGED pollResult
    /\ UNCHANGED <<variant, PROJECT_IDS, OUTPUT_FILE, res, functionResponse, attempt, statusData,
                   rawResults,
                   transformedResults, dirCreated, file, triggerRequests,
                   triggerStatus, statusRequests, sleeps, elapsed, transforms,
                   firstCompleted, allNon2xx, allNoData, priorNoData>>

\* const proposalsData = await makeRequest(proposalsUrlWithParams)
ResultsRequest ==
    /\ pc = "results"
    /\ \E resp \in ProposalsResponses :
         LET r == makeRequest(resp)
         IN  /\ resultsRequests' = resultsRequests + 1
             /\ IF r.threw
                THEN /\ Catch
                     /\ UNCHANGED proposalsData
                ELSE /\ Continue("got_proposals")
                     /\ proposalsData' = r.value
                     /\ UNCHANGED pollResult
    /\ UNCHANGED <<variant, PROJECT_IDS, OUTPUT_FILE, res, functionResponse, attempt, statusData,
                   rawResults,
                   transformedResults, dirCreated, file, triggerRequests,
                   triggerStatus, statusRequests, sleeps, elapsed, transforms,
                   firstCompleted, allNon2xx, allNoData, priorNoData>>

\* mutant of AfterPoll: main writes without transforming
AfterPollSkipsTransform == "mkdir"

\* where main goes on when pollUntilComplete has returned
AfterPoll == IF variant = "ts" THEN "transform" ELSE "mkdir"

\* mutant of ReturnProposals: the whole payload is returned, not its proposals
ReturnWholePayload ==
    /\ pc = "got_proposals"
    /\ Continue(AfterPoll)
    /\ pollResult' = "returned"
    /\ rawResults' = Proposals("scalar", <<>>)
    /\ statusData' = NoValue
    /\ proposalsData' = NoValue
    /\ UNCHANGED <<variant, PROJECT_IDS, OUTPUT_FILE, res, functionResponse, attempt,
                   transformedResults, dirCreated, file, triggerRequests,
                   triggerStatus, statusRequests, resultsRequests, sleeps, elapsed,
                   transforms, firstCompleted, allNon2xx, allNoData, priorNoData>>

\* return proposalsData.proposals
ReturnProposals ==
    /\ pc = "got_proposals"
    /\ IF ReadThrows(proposalsData)
       THEN /\ Catch
            /\ UNCHANGED <<rawResults, statusData>>
       ELSE /\ Continue(AfterPoll)
            /\ pollResult' = "returned"
            /\ rawResults' = proposalsData.proposals
            /\ statusData' = NoValue
    /\ proposalsData' = NoValue
    /\ UNCHANGED <<variant, PROJECT_IDS, OUTPUT_FILE, res, functionResponse, attempt,
                   transformedResults, dirCreated, file, triggerRequests,
                   triggerStatus, statusRequests, resultsRequests, sleeps, elapsed,
                   transforms, firstCompleted, allNon2xx, allNoData, priorNoData>>

\* mutant of SleepWaiting: no sleep after the last attempt
SleepWaitingSkipsLast ==
    /\ pc = "sleep_waiting"
    /\ sleeps' = IF attempt = maxRetries - 1 THEN sleeps ELSE sleeps + 1
    /\ elapsed' = IF attempt = maxRetries - 1 THEN elapsed ELSE elapsed + interval
    /\ statusData' = NoValue
    /\ NextAttempt
    /\ UNCHANGED <<variant, PROJECT_IDS, OUTPUT_FILE, res, functionResponse, proposalsData,
                   rawResults, transformedResults, dirCreated, file,
                   triggerRequests, triggerStatus, statusRequests,
                   resultsRequests, transforms, firstCompleted, allNon2xx,
                   allNoData, priorNoData>>

\* mutant of SleepWaiting: the promise of sleep is never resolved
SleepWaitingNeverResolves ==
    /\ pc = "sleep_waiting"
    /\ FALSE
    /\ UNCHANGED vars

\* await sleep(interval) after a response that does not satisfy the predicate
SleepWaiting ==
    /\ pc = "sleep_waiting"
    /\ sleeps' = sleeps + 1
    /\ elapsed' = elapsed + interval
    /\ statusData' = NoValue
    /\ NextAttempt
    /\ UNCHANGED <<variant, PROJECT_IDS, OUTPUT_FILE, res, functionResponse, proposalsData,
                   rawResults, transformedResults, dirCreated, file,
                   triggerRequests, triggerStatus, statusRequests,
                   resultsRequests, transforms, firstCompleted, allNon2xx,
                   allNoData, priorNoData>>

\* mutant of SleepRetry: the catch block goes on without sleeping
SleepRetryNotAwaited ==
    /\ pc = "sleep_retry"
    /\ statusData' = NoValue
    /\ NextAttempt
    /\ UNCHANGED <<variant, PROJECT_IDS, OUTPUT_FILE, res, functionResponse,
                   proposalsData, rawResults, transformedResults, dirCreated,
                   file, triggerRequests, triggerStatus, statusRequests,
                   resultsRequests, sleeps, elapsed, transforms, firstCompleted,
                   allNon2xx, allNoData, priorNoData>>

\* await sleep(interval) in the catch block
SleepRetry ==
    /\ pc = "sleep_retry"
    /\ sleeps' = sleeps + 1
    /\ elapsed' = elapsed + interval
    /\ statusData' = NoValue
    /\ NextAttempt
    /\ UNCHANGED <<variant, PROJECT_IDS, OUTPUT_FILE, res, functionResponse,
                   proposalsData, rawResults, transformedResults, dirCreated,
                   file, triggerRequests, triggerStatus, statusRequests,
                   resultsRequests, transforms, firstCompleted, allNon2xx,
                   allNoData, priorNoData>>

(***************************************************************************)
(* main, steps 3 and 4: transform and write                                *)
(***************************************************************************)
Timestamps == 1..MaxClock

\* mutant of Transform: a failed transform is swallowed and an empty
\* document goes on to be written
TransformSwallowsError ==
    /\ pc = "transform"
    /\ transforms' = transforms + 1
    /\ \E now \in Timestamps :
         /\ Continue("mkdir")
         /\ transformedResults' =
                IF TransformThrows(rawResults)
                THEN Document("document", <<now>>, <<>>, NoProposals)
                ELSE transformData(rawResults, now)
    /\ UNCHANGED <<variant, PROJECT_IDS, OUTPUT_FILE, res, functionResponse, attempt, statusData,
                   proposalsData, rawResults, dirCreated, file, triggerRequests,
                   triggerStatus, statusRequests, resultsRequests, sleeps, elapsed,
                   pollResult, firstCompleted, allNon2xx, allNoData, priorNoData>>

\* const transformedResults = transformData(rawResults as any[])
Transform ==
    /\ pc = "transform"
    /\ transforms' = transforms + 1
    /\ \E now \in Timestamps :
         IF TransformThrows(rawResults)
         THEN /\ Fatal(MsgTypeError)
              /\ UNCHANGED transformedResults
         ELSE /\ Continue("mkdir")
              /\ transformedResults' = transformData(rawResults, now)
    /\ UNCHANGED <<variant, PROJECT_IDS, OUTPUT_FILE, res, functionResponse, attempt, statusData,
                   proposalsData, rawResults, dirCreated, file, triggerRequests,
                   triggerStatus, statusRequests, resultsRequests, sleeps, elapsed,
                   pollResult, firstCompleted, allNon2xx, allNoData, priorNoData>>

\* await fs.mkdir(path.dirname(fullPath), { recursive: true })
Mkdir ==
    /\ pc = "mkdir"
    /\ \E ok \in BOOLEAN :
         IF ok
         THEN /\ Continue("write")
              /\ dirCreated' = TRUE
         ELSE /\ Exit(LogWrite, "mkdir failed")
              /\ UNCHANGED dirCreated
    /\ UNCHANGED <<variant, PROJECT_IDS, OUTPUT_FILE, res, functionResponse, attempt, statusData,
                   proposalsData, rawResults, transformedResults, file, histVars>>

\* what main passes to JSON.stringify for the file
ToWrite ==
    IF variant = "ts"
    THEN transformedResults
    ELSE Document("raw", <<>>, <<>>, rawResults)

\* a write that fails leaves nothing, or a part of the text
WriteOutcomes == {"written", "absent", "partial"}

\* await fs.writeFile(fullPath, JSON.stringify(..., null, 2)); writeFile
\* rejects data that is not a string before it opens the file
WriteFile ==
    /\ pc = "write"
    /\ \E outcome \in WriteOutcomes :
         IF ~StringifyIsString(ToWrite)
         THEN /\ outcome = "absent"
              /\ Exit(LogWrite, MsgTypeError)
              /\ UNCHANGED file
         ELSE IF outcome = "written"
         THEN /\ pc' = "done"
              /\ exitCode' = "0"
              /\ UNCHANGED <<errorLog, errorMessage>>
              /\ file' = [state |-> "written", doc |-> ToWrite]
         ELSE /\ Exit(LogWrite, "write failed")
              /\ file' = [state |-> outcome, doc |-> NoDocument]
    /\ UNCHANGED <<variant, PROJECT_IDS, OUTPUT_FILE, res, functionResponse, attempt, statusData,
                   proposalsData, rawResults, transformedResults, dirCreated,
                   histVars>>

Next ==
    \/ Validate
    \/ TriggerRequest
    \/ TriggerCheck
    \/ StatusRequest
    \/ CheckStatus
    \/ ResultsRequest
    \/ ReturnProposals
    \/ SleepWaiting
    \/ SleepRetry
    \/ Transform
    \/ Mkdir
    \/ WriteFile

Spec == Init /\ [][Next]_vars

\* every awaited operation (fetch, response.text(), setTimeout, fs.mkdir,
\* fs.writeFile) settles, so the step that follows it is eventually taken
FairSpec == Spec /\ WF_vars(Next)

(***************************************************************************)
(* The one-endpoint copies: src/index.js ("js") and src/src/index.ts       *)
(* ("ts1").  main has no try block: every error reaches main().catch,      *)
(* which prints it and exits with code 1.                                  *)
(***************************************************************************)
OneInit ==
    /\ variant \in OneVariants
    /\ PROJECT_IDS \in IdInputs
    /\ OUTPUT_FILE \in OneOutputFiles
    /\ pc = "load"
    /\ res = NoResponse
    /\ functionResponse = NoValue
    /\ attempt = 0
    /\ statusData = NoValue
    /\ proposalsData = NoValue
    /\ rawResults = NoProposals
    /\ transformedResults = NoDocument
    /\ dirCreated = FALSE
    /\ file = NoFile
    /\ exitCode = "none"
    /\ errorLog = ""
    /\ errorMessage = ""
    /\ triggerRequests = 0
    /\ triggerStatus = "none"
    /\ statusRequests = 0
    /\ resultsRequests = 0
    /\ sleeps = 0
    /\ elapsed = 0
    /\ pollResult = "none"
    /\ transforms = 0
    /\ firstCompleted = FALSE
    /\ allNon2xx = TRUE
    /\ allNoData = TRUE
    /\ priorNoData = TRUE

\* what main().catch prints before the error: nothing, or 'Error:'
OneLog == IF variant = "js" THEN "" ELSE LogError

\* main().catch(err => { console.error(err); process.exit(1) })
OneFatal(msg) == Exit(OneLog, msg)

\* the start of main: src/src/index.ts throws when an input is missing;
\* src/index.js evaluates projectIds.split(','), a TypeError on undefined
OneStart ==
    /\ pc = "load"
    /\ IF variant = "ts1"
       THEN IF Falsy(PROJECT_IDS) \/ Falsy(OUTPUT_FILE)
            THEN OneFatal(MsgMissingInputs)
            ELSE Continue("trigger")
       ELSE IF PROJECT_IDS = "undefined"
            THEN OneFatal(MsgTypeError)
            ELSE Continue("trigger")
    /\ UNCHANGED <<variant, PROJECT_IDS, OUTPUT_FILE, res, progVars, histVars>>

\* await fetch(triggerUrl, { method: 'POST', ... }); if (!res.ok) throw
OneTrigger ==
    /\ pc = "trigger"
    /\ \E resp \in TriggerResponses :
         /\ triggerRequests' = triggerRequests + 1
         /\ triggerStatus' = ResponseClass(resp)
         /\ IF ResponseClass(resp) = "network_error"
            THEN /\ OneFatal(MsgFetch)
                 /\ UNCHANGED attempt
            ELSE IF ResponseClass(resp) = "non2xx"
            THEN /\ OneFatal(MsgTriggerFailed)
                 /\ UNCHANGED attempt
            ELSE /\ Continue("status")
                 /\ attempt' = 0
    /\ UNCHANGED <<variant, PROJECT_IDS, OUTPUT_FILE, res, functionResponse, statusData,
                   proposalsData, rawResults, transformedResults, dirCreated,
                   file, statusRequests, resultsRequests, sleeps, elapsed,
                   pollResult, transforms, firstCompleted, allNon2xx, allNoData,
                   priorNoData>>

\* const res = await fetch(`${pollUrl}?ids=...`): a rejected fetch leaves
\* pollUntilComplete and main
OnePollRequest ==
    /\ pc = "status"
    /\ statusRequests' = statusRequests + 1
    /\ \E resp \in OneResponses :
         IF resp.net = "error"
         THEN /\ OneFatal(MsgFetch)
              /\ pollResult' = "threw"
              /\ UNCHANGED res
         ELSE /\ Continue("check_status")
              /\ res' = resp
              /\ UNCHANGED pollResult
    /\ UNCHANGED <<variant, PROJECT_IDS, OUTPUT_FILE, progVars, triggerRequests,
                   triggerStatus, resultsRequests, sleeps, elapsed, transforms,
                   firstCompleted, allNon2xx, allNoData, priorNoData>>

\* mutant of OnePollCheck: a non-2xx response is waited out like a response
\* that is not completed
OnePollCheckRetries ==
    /\ pc = "check_status"
    /\ IF ~res.ok
       THEN /\ Continue("sleep_waiting")
            /\ UNCHANGED <<pollResult, rawResults>>
       ELSE IF res.form # "json"
       THEN /\ OneFatal(MsgSyntaxError)
            /\ pollResult' = "threw"
            /\ UNCHANGED rawResults
       ELSE IF res.data.kind = "null"
       THEN /\ OneFatal(MsgTypeError)
            /\ pollResult' = "threw"
            /\ UNCHANGED rawResults
       ELSE IF res.data.status = "completed"
       THEN /\ Continue("mkdir")
            /\ pollResult' = "returned"
            /\ rawResults' = res.data.results
       ELSE /\ Continue("sleep_waiting")
            /\ UNCHANGED <<pollResult, rawResults>>
    /\ res' = NoResponse
    /\ UNCHANGED <<variant, PROJECT_IDS, OUTPUT_FILE, functionResponse, attempt,
                   statusData, proposalsData, transformedResults, dirCreated,
                   file, histVarsButPollResult>>

\* if (!res.ok) throw new Error(`Polling failed: ...`);
\* const data = await res.json();
\* if (data.status === 'completed') return data.results
OnePollCheck ==
    /\ pc = "check_status"
    /\ IF ~res.ok
       THEN /\ OneFatal(MsgPollingFailed)
            /\ pollResult' = "threw"
            /\ UNCHANGED rawResults
       ELSE IF res.form # "json"
       THEN /\ OneFatal(MsgSyntaxError)
            /\ pollResult' = "threw"
            /\ UNCHANGED rawResults
       ELSE IF res.data.kind = "null"
       THEN /\ OneFatal(MsgTypeError)
            /\ pollResult' = "threw"
            /\ UNCHANGED rawResults
       ELSE IF res.data.status = "completed"
       THEN /\ Continue("mkdir")
            /\ pollResult' = "returned"
            /\ rawResults' = res.data.results
       ELSE /\ Continue("sleep_waiting")
            /\ UNCHANGED <<pollResult, rawResults>>
    /\ res' = NoResponse
    /\ UNCHANGED <<variant, PROJECT_IDS, OUTPUT_FILE, functionResponse, attempt,
                   statusData, proposalsData, transformedResults, dirCreated,
                   file, histVarsButPollResult>>

\* await sleep(interval); attempt++; the loop test; `throw new
\* Error('Polling timed out.')` after the loop
OneSleep ==
    /\ pc = "sleep_waiting"
    /\ sleeps' = sleeps + 1
    /\ elapsed' = elapsed + interval
    /\ attempt' = attempt + 1
    /\ IF attempt + 1 < maxRetries
       THEN /\ Continue("status")
            /\ UNCHANGED pollResult
       ELSE /\ OneFatal(MsgTimedOut)
            /\ pollResult' = "threw"
    /\ UNCHANGED <<variant, PROJECT_IDS, OUTPUT_FILE, res, functionResponse, statusData,
                   proposalsData, rawResults, transformedResults, dirCreated,
                   file, triggerRequests, triggerStatus, statusRequests,
                   resultsRequests, transforms, firstCompleted, allNon2xx,
                   allNoData, priorNoData>>

\* const fullPath = path.resolve(process.cwd(), outputFile), a TypeError on
\* undefined; await fs.mkdir(path.dirname(fullPath), { recursive: true })
OneMkdir ==
    /\ pc = "mkdir"
    /\ \E ok \in BOOLEAN :
         IF OUTPUT_FILE = "undefined"
         THEN /\ OneFatal(MsgTypeError)
              /\ UNCHANGED dirCreated
         ELSE IF ok
         THEN /\ Continue("write")
              /\ dirCreated' = TRUE
         ELSE /\ OneFatal("mkdir failed")
              /\ UNCHANGED dirCreated
    /\ UNCHANGED <<variant, PROJECT_IDS, OUTPUT_FILE, res, functionResponse, attempt,
                   statusData, proposalsData, rawResults, transformedResults,
                   file, histVars>>

\* await fs.writeFile(fullPath, JSON.stringify(results, null, 2))
OneWriteFile ==
    /\ pc = "write"
    /\ \E outcome \in WriteOutcomes :
         LET doc == Document("raw", <<>>, <<>>, rawResults)
         IN  IF ~StringifyIsString(doc)
             THEN /\ outcome = "absent"
                  /\ OneFatal(MsgTypeError)
                  /\ UNCHANGED file
             ELSE IF outcome = "written"
             THEN /\ pc' = "done"
                  /\ exitCode' = "0"
                  /\ UNCHANGED <<errorLog, errorMessage>>
                  /\ file' = [state |-> "written", doc |-> doc]
             ELSE /\ OneFatal("write failed")
                  /\ file' = [state |-> outcome, doc |-> NoDocument]
    /\ UNCHANGED <<variant, PROJECT_IDS, OUTPUT_FILE, res, functionResponse, attempt,
                   statusData, proposalsData, rawResults, transformedResults,
                   dirCreated, histVars>>

OneNext ==
    \/ OneStart
    \/ OneTrigger
    \/ OnePollRequest
    \/ OnePollCheck
    \/ OneSleep
    \/ OneMkdir
    \/ OneWriteFile

SpecOne == OneInit /\ [][OneNext]_vars

(***************************************************************************)
(* transformData end to end: the transforming copy from the moment the     *)
(* proposals endpoint has answered the third status-complete attempt       *)
(* (status calls: pending, pending, completed with data) with an object    *)
(* whose proposals is an array of raw records.                             *)
(***************************************************************************)
TransformInit ==
    /\ variant = "ts"
    /\ PROJECT_IDS = "101,102"
    /\ OUTPUT_FILE \in OutputFiles
    /\ pc = "got_proposals"
    /\ res = NoResponse
    /\ functionResponse = NoValue
    /\ attempt = 2
    /\ statusData = JsonObject("absent", "true", "completed", NoProposals)
    /\ \E items \in SeqsUpTo(RawRecords, MaxRecords) :
          proposalsData =
              JsonObject("absent", "absent", "absent", Proposals("array", items))
    /\ rawResults = NoProposals
    /\ transformedResults = NoDocument
    /\ dirCreated = FALSE
    /\ file = NoFile
    /\ exitCode = "none"
    /\ errorLog = ""
    /\ errorMessage = ""
    /\ triggerRequests = 1
    /\ triggerStatus = "2xx"
    /\ statusRequests = 3
    /\ resultsRequests = 1
    /\ sleeps = 2
    /\ elapsed = 2 * interval
    /\ pollResult = "none"
    /\ transforms = 0
    /\ firstCompleted = FALSE
    /\ allNon2xx = FALSE
    /\ allNoData = FALSE
    /\ priorNoData = TRUE

TransformNext ==
    \/ ReturnProposals
    \/ Transform
    \/ Mkdir
    \/ WriteFile

SpecTransform == TransformInit /\ [][TransformNext]_vars

(***************************************************************************)
(* Properties                                                              *)
(***************************************************************************)

\* C1: whatever the status endpoint answers (success, non-2xx, network
\* error, unparsable body), pollUntilComplete issues at most maxRetries
\* status requests before it returns or throws.
C1_AtMostMaxRetries == statusRequests <= maxRetries

\* the poll threw after its maxRetries-th status request
C1_Witness == statusRequests = maxRetries /\ pollResult = "threw"

\* C2: a status request that fails (non-2xx or network error) on an attempt
\* that is not the last one does not end the poll: the run goes to the sleep
\* of the catch block, sleeps once and issues the next status request; a
\* failure on the last allowed attempt ends the poll with 'Polling timed out
\* after all attempts.', and that error is raised on no other attempt.
C2_FailedAttemptRetried ==
    [][ /\ (pc = "status" /\ pc' # "check_status") =>
              IF attempt < maxRetries - 1
              THEN pc' = "sleep_retry" /\ exitCode' = "none" /\ pollResult' = "none"
              ELSE /\ pc' = "exit"
                   /\ pollResult' = "threw"
                   /\ errorMessage' = MsgTimedOutAfterAll
        /\ pc = "sleep_retry" =>
              /\ sleeps' = sleeps + 1
              /\ attempt' = attempt + 1
              /\ pc' = "status"
        /\ pc = "status" => statusRequests' = statusRequests + 1
        /\ (errorMessage' = MsgTimedOutAfterAll /\ errorMessage # MsgTimedOutAfterAll) =>
              attempt = maxRetries - 1
      ]_vars

\* two status requests failed with non-2xx: the second was issued after the
\* first had failed and the poller had slept once
C2_Witness ==
    /\ statusRequests = 2
    /\ allNon2xx
    /\ sleeps = 1
    /\ pc = "sleep_retry"

\* hasData === true and status 'completed' or 'partial'
C3_StrictlyComplete(s) ==
    s.hasData = "true" /\ s.status \in {"completed", "partial"}

\* hasData truthy and status 'completed' or 'partial'
C3_TruthyComplete(s) ==
    s.hasData \in {"true", "1"} /\ s.status \in {"completed", "partial"}

\* C3 as claimed: the proposals endpoint is requested only in an attempt
\* whose status response has hasData === true and status 'completed' or
\* 'partial'.
C3_Original ==
    pc \in {"results", "got_proposals"} => C3_StrictlyComplete(statusData)

\* C3, amended: the poller treats a status response as complete if and only
\* if its hasData is truthy (true, or any other truthy JSON value) and its
\* status is 'completed' or 'partial'; the proposals endpoint is requested
\* only in an attempt whose status response is complete in this sense.
C3_CompleteIffTruthy ==
    [][ /\ (pc = "check_status" /\ ~ReadThrows(statusData)) =>
              (pc' = "results" <=> C3_TruthyComplete(statusData))
        /\ resultsRequests' # resultsRequests => C3_TruthyComplete(statusData)
        /\ pc' \in {"results", "got_proposals"} => C3_TruthyComplete(statusData')
      ]_vars

\* the proposals were requested after a status response hasData true, partial
C3_Witness ==
    /\ pc = "got_proposals"
    /\ statusData.hasData = "true"
    /\ statusData.status = "partial"

\* C4 as claimed: when the first status call returned hasData true with
\* status 'completed', the poller never sleeps, fetches the proposals once
\* at most and does not throw.
C4_Original ==
    firstCompleted => (sleeps = 0 /\ resultsRequests <= 1 /\ pollResult # "threw")

\* the first status call has been answered hasData true, 'completed', and
\* no other status call was made
C4_Case == statusRequests = 1 /\ firstCompleted

\* C4, amended: if the first status call returns hasData true with status
\* 'completed' and the results fetch that follows succeeds (a 2xx response
\* whose body is not the JSON value null), the poller returns that payload's
\* proposals field after exactly one results fetch and zero sleeps.
C4_FirstCallCompleted ==
    [][ /\ (pc = "check_status" /\ C4_Case) =>
              pc' = "results" /\ sleeps' = 0 /\ resultsRequests' = 0
        /\ (pc = "got_proposals" /\ C4_Case /\ proposalsData.kind # "null") =>
              /\ pollResult' = "returned"
              /\ rawResults' = proposalsData.proposals
              /\ resultsRequests' = 1
              /\ sleeps' = 0
              /\ exitCode' = "none"
      ]_vars

\* the poll returned an array after one status call, one results fetch and
\* no sleep
C4_Witness ==
    /\ C4_Case
    /\ pollResult = "returned"
    /\ rawResults.kind = "array"
    /\ resultsRequests = 1
    /\ sleeps = 0

\* the first maxRetries - 1 status calls returned hasData false and call
\* number maxRetries returned hasData true with status 'partial'
C5_Case ==
    /\ statusRequests = maxRetries
    /\ priorNoData
    /\ statusData.hasData = "true"
    /\ statusData.status = "partial"

\* C5 as claimed: in that case the poll does not time out.
C5_Original == C5_Case => pollResult # "threw"

\* C5, amended: if the status endpoint returns hasData false on the first
\* maxRetries - 1 calls and hasData true with status 'partial' on call number
\* maxRetries, the poller fetches the proposals, and if that fetch succeeds
\* (a 2xx response whose body is not the JSON value null) it returns the
\* payload's proposals field rather than timing out.
C5_PartialOnLastAttempt ==
    [][ /\ (pc = "check_status" /\ C5_Case) => pc' = "results"
        /\ (pc = "got_proposals" /\ C5_Case /\ proposalsData.kind # "null") =>
              /\ pollResult' = "returned"
              /\ rawResults' = proposalsData.proposals
              /\ exitCode' = "none"
      ]_vars

\* on the last attempt, after 'partial' with data, the proposals have been
\* fetched with success
C5_Witness ==
    /\ C5_Case
    /\ pc = "got_proposals"
    /\ proposalsData.kind = "object"
    /\ sleeps = maxRetries - 1

\* C6: when every one of the maxRetries status calls got a non-2xx
\* response, the run has failed with exit code 1 and the message 'Polling
\* timed out after all attempts.', not with the HTTP error of a request.
C6_AllNon2xxTimesOut ==
    (allNon2xx /\ statusRequests = maxRetries) =>
        /\ pc = "exit"
        /\ exitCode = "1"
        /\ pollResult = "threw"
        /\ errorLog = LogFatal
        /\ errorMessage = MsgTimedOutAfterAll

\* maxRetries status calls were made and each got a non-2xx response
C6_Witness == allNon2xx /\ statusRequests = maxRetries

\* C7: the steps of a run are ordered: the trigger request comes before
\* every other step; a status request comes only after the trigger ended
\* with 2xx and before the poll has ended; a results fetch comes only while
\* the status response of the attempt satisfies the completion predicate;
\* the transform comes only after the poll returned; the directory creation
\* and the file write come only after the transform (in the copy that
\* transforms), and the write after the directory creation.
C7_TotalOrder ==
    [][ /\ triggerRequests' # triggerRequests =>
              /\ statusRequests = 0 /\ resultsRequests = 0 /\ transforms = 0
              /\ ~dirCreated /\ file = NoFile
        /\ statusRequests' # statusRequests =>
              /\ triggerRequests = 1 /\ triggerStatus = "2xx"
              /\ pollResult = "none" /\ transforms = 0
              /\ ~dirCreated /\ file = NoFile
        /\ resultsRequests' # resultsRequests =>
              /\ statusRequests >= 1 /\ C3_TruthyComplete(statusData)
              /\ pollResult = "none" /\ transforms = 0
              /\ ~dirCreated /\ file = NoFile
        /\ transforms' # transforms =>
              /\ pollResult = "returned" /\ resultsRequests >= 1
              /\ ~dirCreated /\ file = NoFile
        /\ pc = "mkdir" =>
              /\ pollResult = "returned"
              /\ variant = "ts" => transforms = 1 /\ transformedResults # NoDocument
              /\ ~dirCreated /\ file = NoFile
        /\ (pc = "write" \/ file' # file) =>
              /\ dirCreated
              /\ pollResult = "returned"
              /\ variant = "ts" => transforms = 1 /\ transformedResults # NoDocument
      ]_vars

\* a run of the transforming copy that slept, polled again and wrote the file
C7_Witness ==
    /\ variant = "ts"
    /\ pc = "done"
    /\ sleeps >= 1
    /\ transforms = 1
    /\ file.state = "written"

\* C8: the trigger request is issued once at most, and when it got a non-2xx
\* response the run has exited with code 1 without any status request,
\* results fetch, directory creation or file write.
C8_TriggerNon2xxIsFatal ==
    /\ triggerRequests <= 1
    /\ triggerStatus = "non2xx" =>
          /\ pc = "exit"
          /\ exitCode = "1"
          /\ errorLog = LogTrigger
          /\ triggerRequests = 1
          /\ statusRequests = 0
          /\ resultsRequests = 0
          /\ ~dirCreated
          /\ file = NoFile

\* the trigger got a non-2xx response
C8_Witness == triggerStatus = "non2xx" /\ pc = "exit"

\* C9: whatever the body of a 2xx trigger response, the run does not end
\* with a trigger failure: it goes on to polling.
C9_BodyAdvisory ==
    triggerStatus = "2xx" => ~(pc = "exit" /\ errorLog = LogTrigger)

\* C10: a file is left at the output path only after a 2xx trigger, a poll
\* that returned (so a satisfied completion predicate and a results fetch
\* that succeeded) and, in the copy that transforms, a transform that
\* succeeded; a write that succeeded left the full document (one project
\* per raw record, or the raw poll result); and a run that ended with a
\* configuration, trigger, poll-timeout or transform error left nothing.
C10_NoPartialOutput ==
    /\ file # NoFile =>
          /\ triggerStatus = "2xx"
          /\ pollResult = "returned"
          /\ resultsRequests >= 1
          /\ variant = "ts" => transforms = 1
    /\ file.state = "written" =>
          /\ pc = "done"
          /\ variant = "ts" =>
                /\ rawResults.kind = "array"
                /\ file.doc.kind = "document"
                /\ Len(file.doc.projects) = Len(rawResults.items)
          /\ variant = "dist" =>
                /\ rawResults.kind # "absent"
                /\ file.doc.raw = rawResults
    /\ pc = "done" => file.state = "written"
    /\ (pc = "exit" /\ errorLog \in {MsgMissingIds, LogTrigger, LogFatal}) =>
          file = NoFile

\* the transform failed on what the poll returned, and the run has exited
C10_Witness ==
    /\ pc = "exit"
    /\ transforms = 1
    /\ errorLog = LogFatal
    /\ errorMessage = MsgTypeError
\* C11: the process has exited with code 0 exactly when the output file was
\* written in full, and a run that stopped on a fatal error (missing
\* identifiers, trigger failure, poll timeout, transform failure, directory
\* creation or file write failure) has exited with code 1.
C11_ExitCodes ==
    /\ exitCode = "0" <=> file.state = "written"
    /\ exitCode = "0" <=> pc = "done"
    /\ exitCode = "1" <=> pc = "exit"
    /\ pc = "exit" =>
          /\ errorLog \in {MsgMissingIds, LogTrigger, LogFatal, LogWrite}
          /\ file.state # "written"
    /\ (Falsy(PROJECT_IDS) /\ pc # "load") => exitCode = "1"
    /\ (triggerStatus \in {"non2xx", "network_error"}) => exitCode = "1"
    /\ pollResult = "threw" => exitCode = "1"

\* the file write failed after the directory was created
C11_Witness ==
    /\ pc = "exit"
    /\ exitCode = "1"
    /\ errorLog = LogWrite
    /\ errorMessage = "write failed"
    /\ dirCreated

\* C12: when the loop ends after the last attempt got a response that does
\* not satisfy the completion predicate, the poll fails with 'Polling timed
\* out.', which main().catch prints before exit code 1; that message differs
\* from the HTTP and network error messages and from 'Polling timed out
\* after all attempts.', which is raised only from the catch block of an
\* attempt that failed.
C12_TimeoutDistinct ==
    [][ /\ (pc = "sleep_waiting" /\ attempt = maxRetries - 1) =>
              /\ pc' = "exit"
              /\ exitCode' = "1"
              /\ pollResult' = "threw"
              /\ errorLog' = LogFatal
              /\ errorMessage' = MsgTimedOut
        /\ (errorMessage' = MsgTimedOut /\ errorMessage # MsgTimedOut) =>
              /\ pc = "sleep_waiting"
              /\ statusRequests = maxRetries
        /\ (errorMessage' # errorMessage /\ pc = "sleep_waiting") =>
              errorMessage' \notin {MsgTimedOutAfterAll, MsgHttp, MsgFetch}
        /\ (allNoData' /\ statusRequests' = maxRetries /\ pc' = "exit") =>
              errorMessage' = MsgTimedOut
      ]_vars

\* every one of the maxRetries status calls returned hasData false and the
\* run ended with 'Polling timed out.'
C12_Witness ==
    /\ allNoData
    /\ statusRequests = maxRetries
    /\ resultsRequests = 0
    /\ pc = "exit"
    /\ errorMessage = MsgTimedOut

\* C13: a status request is issued only when one sleep has been completed
\* for each earlier status request, after a response that did not satisfy
\* the predicate as after a failure; every sleep lasts `interval` ms, so
\* after k status requests at least (k - 1) * interval ms have been slept.
C13_OneSleepBetweenRequests ==
    /\ elapsed = sleeps * interval
    /\ pc = "status" => sleeps = statusRequests
    /\ pc \in {"check_status", "results", "got_proposals", "sleep_waiting",
               "sleep_retry"} => sleeps = statusRequests - 1
    /\ statusRequests >= 1 =>
          /\ sleeps >= statusRequests - 1
          /\ elapsed >= (statusRequests - 1) * interval

\* a third status request, after an attempt that failed and an attempt
\* that got a response that did not satisfy the predicate
C13_Witness ==
    /\ statusRequests = 3
    /\ sleeps = 2
    /\ elapsed = 2 * interval
    /\ resultsRequests = 1
    /\ ~allNon2xx
    /\ ~priorNoData
    /\ pc = "check_status"
\* C14: when every HTTP request and every file system operation returns
\* (with a result or with an error), the program terminates: it reaches the
\* end of main or a process.exit, with exit code 0 or 1.
C14_Terminates ==
    <>(pc \in {"done", "exit"} /\ exitCode \in {"0", "1"})

\* the longest run: maxRetries status requests, the last of them complete,
\* then the file is written
C14_Witness ==
    /\ pc = "done"
    /\ exitCode = "0"
    /\ statusRequests = maxRetries
    /\ sleeps = maxRetries - 1
\* C15: transformData gives a document whose projects has the length of the
\* raw array and whose i-th entry comes from the i-th raw record (its id,
\* and a milestone count taken from its fields or 0); the array given to
\* transformData is the proposals array the results endpoint returned, and
\* the file written has as many projects as that array has records.
C15_OrderPreserving ==
    /\ [](transformedResults.kind = "document" =>
            /\ rawResults.kind = "array"
            /\ Len(transformedResults.projects) = Len(rawResults.items)
            /\ \A i \in 1..Len(rawResults.items) :
                 LET project == rawResults.items[i]
                     out == transformedResults.projects[i]
                 IN  /\ out.projectDetails.id = project.id
                     /\ <<out.milestonesCompleted>> \in
                            {project.milestones_completed,
                             project.completed_milestones, <<0>>}
                     /\ out = TransformProject(project))
    /\ [](file.state = "written" =>
            /\ file.doc = transformedResults
            /\ Len(file.doc.projects) = Len(rawResults.items))
    /\ [][(pc = "got_proposals" /\ pc' # "got_proposals") =>
              rawResults' = proposalsData.proposals]_vars

\* two records with different ids and different counts, written in the
\* order in which the endpoint returned them
C15_Witness ==
    /\ file.state = "written"
    /\ Len(rawResults.items) = 2
    /\ rawResults.items[1].id = <<2>>
    /\ rawResults.items[2].id = <<1>>
    /\ file.doc.projects[1].projectDetails.id = <<2>>
    /\ file.doc.projects[1].milestonesCompleted = 3
    /\ file.doc.projects[2].milestonesCompleted = 5

\* C16: milestonesCompleted is milestones_completed when that field is
\* present, otherwise completed_milestones when that field is present,
\* otherwise 0.
C16_TwoKeyFallback ==
    transformedResults.kind = "document" =>
        \A i \in 1..Len(rawResults.items) :
            LET project == rawResults.items[i]
                a == project.milestones_completed
                b == project.completed_milestones
            IN  transformedResults.projects[i].milestonesCompleted =
                    IF a # <<>> THEN a[1] ELSE IF b # <<>> THEN b[1] ELSE 0
\* C17: a proposals request that fails is caught by the catch block of its
\* attempt: before the last attempt the poller goes to the catch's sleep,
\* then to the next attempt's status request; on the last attempt the poll
\* fails with 'Polling timed out after all attempts.'.  One poll issues at
\* most one proposals request per status request, so at most maxRetries.
C17_ResultsFailureRetried ==
    /\ [](resultsRequests <= statusRequests /\ statusRequests <= maxRetries)
    /\ [][ /\ (pc = "results" /\ pc' # "got_proposals") =>
                 /\ resultsRequests' = resultsRequests + 1
                 /\ statusRequests' = statusRequests
                 /\ IF attempt < maxRetries - 1
                    THEN /\ pc' = "sleep_retry"
                         /\ pollResult' = "none"
                         /\ exitCode' = "none"
                    ELSE /\ pc' = "exit"
                         /\ pollResult' = "threw"
                         /\ exitCode' = "1"
                         /\ errorLog' = LogFatal
                         /\ errorMessage' = MsgTimedOutAfterAll
           /\ pc = "sleep_retry" =>
                 /\ pc' = "status"
                 /\ attempt' = attempt + 1
                 /\ sleeps' = sleeps + 1
         ]_vars

\* every attempt got a satisfying status response and a failed proposals
\* request: maxRetries proposals requests, then the timeout of the catch
C17_Witness ==
    /\ resultsRequests = maxRetries
    /\ statusRequests = maxRetries
    /\ pollResult = "threw"
    /\ errorMessage = MsgTimedOutAfterAll

\* C18: a poll that ended with 'Polling timed out.' (last attempt answered,
\* not satisfying) has slept maxRetries times; a poll that ended with
\* 'Polling timed out after all attempts.' (last attempt failed) has slept
\* maxRetries - 1 times; a poll throws nothing else.
C18_SleepsAtTimeout ==
    /\ pollResult = "threw" =>
          /\ errorMessage \in {MsgTimedOut, MsgTimedOutAfterAll}
          /\ statusRequests = maxRetries
    /\ (pollResult = "threw" /\ errorMessage = MsgTimedOut) =>
          /\ sleeps = maxRetries
          /\ elapsed = maxRetries * interval
    /\ (pollResult = "threw" /\ errorMessage = MsgTimedOutAfterAll) =>
          /\ sleeps = maxRetries - 1
          /\ elapsed = (maxRetries - 1) * interval

\* a poll with a failed proposals request before its last attempt, which
\* got a response that does not satisfy the predicate
C18_Witness ==
    /\ pollResult = "threw"
    /\ errorMessage = MsgTimedOut
    /\ sleeps = maxRetries
    /\ resultsRequests >= 1

\* the proposals request returned a value with no proposals array
C19_LacksArray(v) == v.kind # "object" \/ v.proposals.kind # "array"

\* C19 as stated: in the transforming copy, whenever the proposals request
\* returned a value without a proposals array, the poll returns.
C19_Original ==
    [][(pc = "got_proposals" /\ variant = "ts" /\ C19_LacksArray(proposalsData))
           => pollResult' = "returned"]_vars

\* C19: in the transforming copy, when the proposals request returned a
\* value other than null that has no proposals array (an empty body, a
\* body that is not JSON, a JSON scalar, an object whose proposals is
\* missing or not an array), the poll returns that non-array without
\* another request or sleep; transformData then throws, and the run ends
\* with exit code 1 having created no directory and written no file.
C19_NonArrayIsFatal ==
    /\ [][(pc = "got_proposals" /\ variant = "ts" /\ ~ReadThrows(proposalsData)
             /\ C19_LacksArray(proposalsData)) =>
              /\ pollResult' = "returned"
              /\ rawResults'.kind # "array"
              /\ pc' = "transform"
              /\ sleeps' = sleeps]_vars
    /\ [][pollResult = "returned" =>
              /\ statusRequests' = statusRequests
              /\ resultsRequests' = resultsRequests
              /\ sleeps' = sleeps]_vars
    /\ []((variant = "ts" /\ pollResult = "returned" /\ rawResults.kind # "array") =>
              /\ pc \in {"transform", "exit"}
              /\ file = NoFile
              /\ ~dirCreated
              /\ transformedResults = NoDocument
              /\ pc = "exit" =>
                    /\ exitCode = "1"
                    /\ errorLog = LogFatal
                    /\ errorMessage = MsgTypeError
                    /\ transforms = 1)

\* the poll returned undefined, the transform threw, the run exited with 1
C19_Witness ==
    /\ variant = "ts"
    /\ pollResult = "returned"
    /\ rawResults.kind = "absent"
    /\ transforms = 1
    /\ pc = "exit"
    /\ exitCode = "1"
    /\ file = NoFile
\* C20: in the one-endpoint copies a non-2xx answer of the poll endpoint, on
\* whatever attempt, ends the poll at once with 'Polling failed': no sleep
\* and no request follows it, no directory is created and no file written,
\* and the process exits with code 1.  An answer whose status is
\* 'completed' makes the poll return its results field, with no further
\* request; these copies never issue a results request.
C20_NoRecovery ==
    /\ [](resultsRequests = 0)
    /\ [][(pc = "check_status" /\ ~res.ok) =>
              /\ pc' = "exit"
              /\ exitCode' = "1"
              /\ pollResult' = "threw"
              /\ errorMessage' = MsgPollingFailed
              /\ sleeps' = sleeps
              /\ statusRequests' = statusRequests]_vars
    /\ [](errorMessage = MsgPollingFailed =>
              /\ pc = "exit"
              /\ file = NoFile
              /\ ~dirCreated
              /\ statusRequests >= 1
              /\ sleeps = statusRequests - 1)
    /\ [][(pc = "check_status" /\ res.ok /\ res.form = "json"
             /\ res.data.kind = "object" /\ res.data.status = "completed") =>
              /\ pc' = "mkdir"
              /\ pollResult' = "returned"
              /\ rawResults' = res.data.results
              /\ sleeps' = sleeps
              /\ statusRequests' = statusRequests]_vars
    /\ [][pollResult # "none" =>
              /\ statusRequests' = statusRequests
              /\ sleeps' = sleeps]_vars

\* the third answer of the poll endpoint was not 2xx
C20_Witness ==
    /\ variant \in OneVariants
    /\ errorMessage = MsgPollingFailed
    /\ exitCode = "1"
    /\ statusRequests = 3
    /\ sleeps = 2
    /\ file = NoFile
====
